---- MODULE Spec2Model ----
(***************************************************************************)
(* Model of analyze_game (src/Analyzer.py): replay of one recorded game,   *)
(* two blocking engine queries per ply, score-drop classification, console *)
(* and renderer output, and the engine session's lifecycle.                *)
(***************************************************************************)
EXTENDS Integers, Sequences, FiniteSets, TLC

\* ---- configuration (module-level constants of Analyzer.py) ----
THRESHOLD_BLUNDER == 300
THRESHOLD_MISTAKE == 100
THRESHOLD_INACCURACY == 50
MATE_SCORE == 10000

\* ---- bounds of the model ----
MaxPly == 4
MaxDrop == 350

\* ---- Python's optional values: None is the empty set, a value x is {x} ----
None == {}
Some(x) == {x}
Val(o) == CHOOSE x \in o : TRUE

\* Scores the engine may answer with (White's perspective, mate already clamped).
Scores == {-260, 0, 50, MATE_SCORE, -MATE_SCORE}
Sides == {"White", "Black"}
Other(side) == IF side = "White" THEN "Black" ELSE "White"

VARIABLES
    pc,            \* position inside analyze_game
    nmoves,        \* len(list(game.mainline_moves()))
    turn,          \* board.turn
    ply,           \* index of the move the for loop is processing (0 before the loop)
    engine,        \* "none" | "running" | "quit"
    quits,         \* number of engine.quit() calls
    gui,           \* ChessGUI constructed
    pushed,        \* len(board.move_stack)
    pending,       \* engine.analyse calls that have not returned yet
    queries,       \* engine.analyse calls that returned or raised, with their answers
    console,       \* lines printed
    drawn,         \* gui.draw_board calls
    records,       \* the loop's locals at line 149, one entry per ply
    prev_score, move_number, player, best_move, score, gui_message, arrow, drop,
    exc            \* exception caught by the handlers of lines 160-163

vars == <<pc, nmoves, turn, pushed, pending, ply, engine, quits, gui, queries, console, drawn,
          records, prev_score, move_number, player, best_move, score,
          gui_message, arrow, drop, exc>>

\* A printed line; fields a line does not carry hold the fillers below.
Line(kind, p, num, who, sc, label, d) ==
    [kind |-> kind, ply |-> p, num |-> num, player |-> who, score |-> sc,
     label |-> label, drop |-> d]
Plain(kind) == Line(kind, 0, 0, "", 0, "", 0)

\* ---- the drop classification of lines 136-147 ----
Classify_Exclusive(d) ==
    IF d > THRESHOLD_BLUNDER THEN "Blunder"
    ELSE IF d > THRESHOLD_MISTAKE THEN "Mistake"
    ELSE IF d > THRESHOLD_INACCURACY THEN "Inaccuracy"
    ELSE "None"

Classify_Symmetric(d) ==
    IF d >= THRESHOLD_BLUNDER \/ 0 - d >= THRESHOLD_BLUNDER THEN "Blunder"
    ELSE IF d >= THRESHOLD_MISTAKE THEN "Mistake"
    ELSE IF d >= THRESHOLD_INACCURACY THEN "Inaccuracy"
    ELSE "None"

Classify(d) ==
    IF d >= THRESHOLD_BLUNDER THEN "Blunder"
    ELSE IF d >= THRESHOLD_MISTAKE THEN "Mistake"
    ELSE IF d >= THRESHOLD_INACCURACY THEN "Inaccuracy"
    ELSE "None"

Drop_Reversed(prev, sc) ==
    IF prev # None /\ sc # None THEN Some(Val(sc) - Val(prev)) ELSE None

\* Line 134: a drop exists only when both scores are defined; line 135.
Drop(prev, sc) ==
    IF prev # None /\ sc # None THEN Some(Val(prev) - Val(sc)) ELSE None

Severity(prev, sc) ==
    IF Drop(prev, sc) = None THEN "None" ELSE Classify(Val(Drop(prev, sc)))

\* ---- the except clauses, lines 160-163 ----
Handler(type) == IF type = "FileNotFoundError" THEN "notfound" ELSE "error"

Raise_ResumeLoop(type, site) ==
    /\ exc' = <<type, site>>
    /\ console' = Append(console, Plain(Handler(type)))
    /\ pc' = IF site \in {"analyse_pre", "analyse_post"} THEN "loop" ELSE "done"

Raise(type, site) ==
    /\ exc' = <<type, site>>
    /\ console' = Append(console, Plain(Handler(type)))
    /\ pc' = "done"

InitialPrevScore_Zero == Some(0)

\* Line 115.
InitialPrevScore == None

Init ==
    /\ pc = "open"
    /\ nmoves = 0
    /\ turn = "White"
    /\ ply = 0
    /\ engine = "none"
    /\ quits = 0
    /\ gui = FALSE
    /\ pushed = 0
    /\ pending = <<>>
    /\ queries = <<>>
    /\ console = <<>>
    /\ drawn = <<>>
    /\ records = <<>>
    /\ prev_score = None
    /\ move_number = 0
    /\ player = ""
    /\ best_move = None
    /\ score = None
    /\ gui_message = <<>>
    /\ arrow = None
    /\ drop = None
    /\ exc = <<>>

\* ---- lines 97-99: open(pgn_path) fails ----
OpenFails ==
    /\ pc = "open"
    /\ \E type \in {"FileNotFoundError", "PermissionError"} : Raise(type, "open")
    /\ UNCHANGED <<nmoves, turn, pushed, ply, engine, quits, gui, queries, pending, drawn, records,
                   prev_score, move_number, player, best_move, score,
                   gui_message, arrow, drop>>

NoGame_NoReturn ==
    /\ pc = "open"
    /\ console' = Append(console, Plain("nogame"))
    /\ pc' = "popen"
    /\ UNCHANGED <<nmoves, turn, pushed, ply, engine, quits, gui, queries, pending, drawn, records,
                   prev_score, move_number, player, best_move, score,
                   gui_message, arrow, drop, exc>>

\* ---- lines 101-103: read_game found no game ----
NoGame ==
    /\ pc = "open"
    /\ console' = Append(console, Plain("nogame"))
    /\ pc' = "done"
    /\ UNCHANGED <<nmoves, turn, pushed, ply, engine, quits, gui, queries, pending, drawn, records,
                   prev_score, move_number, player, best_move, score,
                   gui_message, arrow, drop, exc>>

\* ---- lines 98-105: a game of n plies, either side to move first ----
ReadGame ==
    /\ pc = "open"
    /\ \E n \in 0..MaxPly, first \in Sides :
          /\ nmoves' = n
          /\ turn' = first
    /\ pc' = "popen"
    /\ UNCHANGED <<pushed, ply, engine, quits, gui, queries, pending, console, drawn, records,
                   prev_score, move_number, player, best_move, score,
                   gui_message, arrow, drop, exc>>

\* ---- lines 106-108: SimpleEngine.popen_uci ----
StartEngine ==
    /\ pc = "popen"
    /\ engine' = "running"
    /\ console' = Append(console, Plain("start"))
    /\ pc' = "tk"
    /\ UNCHANGED <<nmoves, turn, pushed, ply, quits, gui, queries, pending, drawn, records,
                   prev_score, move_number, player, best_move, score,
                   gui_message, arrow, drop, exc>>

\* popen_uci raises: FileNotFoundError for a missing executable, EngineError
\* for an executable that does not complete the UCI handshake.
StartEngineFails ==
    /\ pc = "popen"
    /\ \E type \in {"FileNotFoundError", "EngineError"} : Raise(type, "popen_uci")
    /\ UNCHANGED <<nmoves, turn, pushed, ply, engine, quits, gui, queries, pending, drawn, records,
                   prev_score, move_number, player, best_move, score,
                   gui_message, arrow, drop>>

\* ---- lines 110-116: renderer construction, first draw, loop locals ----
StartGUI ==
    /\ pc = "tk"
    /\ gui' = TRUE
    /\ gui_message' = <<>>
    /\ drawn' = Append(drawn, [ply |-> 0, arrow |-> None, message |-> <<>>])
    /\ prev_score' = InitialPrevScore
    /\ move_number' = 1
    /\ pc' = "loop"
    /\ UNCHANGED <<nmoves, turn, pushed, ply, engine, quits, queries, pending, console, records,
                   player, best_move, score, arrow, drop, exc>>

StartGUIFails ==
    /\ pc = "tk"
    /\ Raise("TclError", "Tk")
    /\ UNCHANGED <<nmoves, turn, pushed, ply, engine, quits, gui, queries, pending, drawn, records,
                   prev_score, move_number, player, best_move, score,
                   gui_message, arrow, drop>>

LoopHead_NoAdvance ==
    /\ pc = "loop"
    /\ IF ply < nmoves
       THEN /\ ply' = IF ply = 0 THEN 1 ELSE ply
            /\ player' = turn
            /\ pc' = "pre"
       ELSE /\ pc' = "quit"
            /\ UNCHANGED <<ply, player>>
    /\ UNCHANGED <<nmoves, turn, pushed, engine, quits, gui, queries, pending, console, drawn,
                   records, prev_score, move_number, best_move, score,
                   gui_message, arrow, drop, exc>>

\* ---- lines 118-119: next move of the mainline, or loop exit ----
LoopHead ==
    /\ pc = "loop"
    /\ IF ply < nmoves
       THEN /\ ply' = ply + 1
            /\ player' = turn
            /\ pc' = "pre"
       ELSE /\ pc' = "quit"
            /\ UNCHANGED <<ply, player>>
    /\ UNCHANGED <<nmoves, turn, pushed, engine, quits, gui, queries, pending, console, drawn,
                   records, prev_score, move_number, best_move, score,
                   gui_message, arrow, drop, exc>>

\* An engine.analyse call: the ply it belongs to, and the position it is given
\* (the number of moves on the board).
Request(phase) ==
    [ply |-> ply, phase |-> phase, pos |-> pushed, engine |-> engine]

RequestAfterPush(phase) ==
    [ply |-> ply, phase |-> phase, pos |-> pushed + 1, engine |-> engine]

Query(phase, ok, sc, pv) ==
    [ply |-> ply, phase |-> phase, ok |-> ok, score |-> sc, pv |-> pv,
     engine |-> engine, pos |-> pending[1].pos]

\* ---- line 121: engine.analyse is called on the position before the move ----
CallPreQuery ==
    /\ pc = "pre"
    /\ pending' = Append(pending, Request("pre"))
    /\ pc' = "pre_wait"
    /\ UNCHANGED <<nmoves, turn, pushed, ply, engine, quits, gui, queries, console,
                   drawn, records, prev_score, move_number, player, best_move,
                   score, gui_message, arrow, drop, exc>>

\* ---- lines 121-122: the call returns; head of the principal variation ----
PreQuery ==
    /\ pc = "pre_wait"
    /\ \E pv \in {None, Some(ply)} :
          /\ best_move' = pv
          /\ queries' = Append(queries, Query("pre", TRUE, None, pv))
    /\ pending' = Tail(pending)
    /\ pc' = "post"
    /\ UNCHANGED <<nmoves, turn, pushed, ply, engine, quits, gui, console, drawn, records,
                   prev_score, move_number, player, score, gui_message, arrow,
                   drop, exc>>

PreQueryFails ==
    /\ pc = "pre_wait"
    /\ queries' = Append(queries, Query("pre", FALSE, None, None))
    /\ pending' = Tail(pending)
    /\ Raise("EngineError", "analyse_pre")
    /\ UNCHANGED <<nmoves, turn, pushed, ply, engine, quits, gui, drawn, records,
                   prev_score, move_number, player, best_move, score,
                   gui_message, arrow, drop>>

CallPostQuery_BeforePush ==
    /\ pc = "post"
    /\ turn' = Other(turn)
    /\ pushed' = pushed + 1
    /\ pending' = Append(pending, Request("post"))
    /\ pc' = "post_wait"
    /\ UNCHANGED <<nmoves, ply, engine, quits, gui, queries, console,
                   drawn, records, prev_score, move_number, player, best_move,
                   score, gui_message, arrow, drop, exc>>

\* ---- lines 124-125: push the move, call engine.analyse on the new position ----
CallPostQuery ==
    /\ pc = "post"
    /\ turn' = Other(turn)
    /\ pushed' = pushed + 1
    /\ pending' = Append(pending, RequestAfterPush("post"))
    /\ pc' = "post_wait"
    /\ UNCHANGED <<nmoves, ply, engine, quits, gui, queries, console,
                   drawn, records, prev_score, move_number, player, best_move,
                   score, gui_message, arrow, drop, exc>>

\* ---- lines 125-126: the call returns; White-perspective score ----
PostQuery ==
    /\ pc = "post_wait"
    /\ \E sc \in {Some(s) : s \in Scores} \cup {None} :
          /\ score' = sc
          /\ queries' = Append(queries, Query("post", TRUE, sc, None))
    /\ pending' = Tail(pending)
    /\ pc' = "report"
    /\ UNCHANGED <<nmoves, turn, pushed, ply, engine, quits, gui, console, drawn, records,
                   prev_score, move_number, player, best_move, gui_message,
                   arrow, drop, exc>>

PostQueryFails ==
    /\ pc = "post_wait"
    /\ queries' = Append(queries, Query("post", FALSE, None, None))
    /\ pending' = Tail(pending)
    /\ Raise("EngineError", "analyse_post")
    /\ UNCHANGED <<nmoves, turn, pushed, ply, engine, quits, gui, drawn, records,
                   prev_score, move_number, player, best_move, score,
                   gui_message, arrow, drop>>

\* ---- lines 128-129: the ply's line; score / 100.0 raises on None ----
Report ==
    /\ pc = "report"
    /\ IF score = None
       THEN Raise("TypeError", "format")
       ELSE /\ console' = Append(console,
                    Line("ply", ply, move_number, player, Val(score), "", 0))
            /\ pc' = "classify"
            /\ UNCHANGED exc
    /\ UNCHANGED <<nmoves, turn, pushed, ply, engine, quits, gui, queries, pending, drawn, records,
                   prev_score, move_number, player, best_move, score,
                   gui_message, arrow, drop>>

Message_KeepOld(who, sev, old) == IF sev = "None" THEN old ELSE <<who, sev>>

\* Lines 131 and 137-145: gui.message is cleared, then set for a severity.
Message(who, sev, old) == IF sev = "None" THEN <<>> ELSE <<who, sev>>

Remember_InsideGuard(prev, sc) == IF prev # None /\ sc # None THEN sc ELSE prev

\* Line 149: the score remembered for the next ply.
Remember(prev, sc) == sc

\* ---- lines 131-149: message, arrow, severity line, prev_score ----
ClassifyMove ==
    /\ pc = "classify"
    /\ LET d == Drop(prev_score, score)
           sev == Severity(prev_score, score)
       IN /\ drop' = IF d = None THEN drop ELSE d
          /\ gui_message' = Message(player, sev, gui_message)
          /\ arrow' = IF sev = "None" THEN None ELSE best_move
          /\ console' = IF sev = "None" THEN console
                        ELSE Append(console,
                                 Line("sev", ply, move_number, player, 0, sev, Val(d)))
          /\ records' = Append(records,
                 [ply |-> ply, actor |-> player, pre_move_best |-> best_move,
                  post_move_score |-> score, prev |-> prev_score, delta |-> d,
                  severity |-> sev, num |-> move_number])
    /\ prev_score' = Remember(prev_score, score)
    /\ pc' = "draw"
    /\ UNCHANGED <<nmoves, turn, pushed, ply, engine, quits, gui, queries, pending, drawn,
                   move_number, player, best_move, score, exc>>

NextMoveNumber_EveryPly(who, num) == num + 1

\* Lines 153-154.
NextMoveNumber(who, num) == IF who = "Black" THEN num + 1 ELSE num

\* ---- lines 150-154: draw, pacing sleep, move number ----
Draw ==
    /\ pc = "draw"
    /\ drawn' = Append(drawn,
           [ply |-> ply, message |-> gui_message,
            arrow |-> IF gui_message # <<>> THEN best_move ELSE None])
    /\ move_number' = NextMoveNumber(player, move_number)
    /\ pc' = "loop"
    /\ UNCHANGED <<nmoves, turn, pushed, ply, engine, quits, gui, queries, pending, console, records,
                   prev_score, player, best_move, score, gui_message, arrow,
                   drop, exc>>

\* root.update() raises once the window has been destroyed
DrawFails ==
    /\ pc = "draw"
    /\ Raise("TclError", "draw_board")
    /\ UNCHANGED <<nmoves, turn, pushed, ply, engine, quits, gui, queries, pending, drawn, records,
                   prev_score, move_number, player, best_move, score,
                   gui_message, arrow, drop>>

\* ---- lines 156-157: engine.quit() and the completion line ----
Quit ==
    /\ pc = "quit"
    /\ engine' = "quit"
    /\ quits' = quits + 1
    /\ console' = Append(console, Plain("complete"))
    /\ pc' = "mainloop"
    /\ UNCHANGED <<nmoves, turn, pushed, ply, gui, queries, pending, drawn, records,
                   prev_score, move_number, player, best_move, score,
                   gui_message, arrow, drop, exc>>

\* ---- line 158: the window is closed ----
Mainloop ==
    /\ pc = "mainloop"
    /\ pc' = "done"
    /\ UNCHANGED <<nmoves, turn, pushed, ply, engine, quits, gui, queries, pending, console, drawn,
                   records, prev_score, move_number, player, best_move, score,
                   gui_message, arrow, drop, exc>>

Next ==
    \/ OpenFails \/ NoGame \/ ReadGame
    \/ StartEngine \/ StartEngineFails
    \/ StartGUI \/ StartGUIFails
    \/ LoopHead
    \/ CallPreQuery \/ PreQuery \/ PreQueryFails
    \/ CallPostQuery \/ PostQuery \/ PostQueryFails
    \/ Report \/ ClassifyMove
    \/ Draw \/ DrawFails
    \/ Quit \/ Mainloop

Spec == Init /\ [][Next]_vars

\* The interpreter runs analyze_game to its next statement, and every
\* engine.analyse call returns or raises; only the closing of the window
\* (line 158) is left to the user.
Progress ==
    \/ OpenFails \/ NoGame \/ ReadGame
    \/ StartEngine \/ StartEngineFails
    \/ StartGUI \/ StartGUIFails
    \/ LoopHead
    \/ CallPreQuery \/ PreQuery \/ PreQueryFails
    \/ CallPostQuery \/ PostQuery \/ PostQueryFails
    \/ Report \/ ClassifyMove
    \/ Draw \/ DrawFails
    \/ Quit

FairSpec == Init /\ [][Next]_vars /\ WF_vars(Progress)

\* ---- the classification step on its own ----
\* The loop stands at line 131 of its first ply (no previous score) or of its
\* second ply (previous score p), with this ply's score s anywhere in the range.
DropRange == (0 - MaxDrop)..MaxDrop
PrevChoices == {0, 50}

Answered(p, phase, sc) ==
    [ply |-> p, phase |-> phase, ok |-> TRUE, score |-> sc, pv |-> None,
     engine |-> "running", pos |-> IF phase = "pre" THEN p - 1 ELSE p]

InitClassifyFirst ==
    \E s \in DropRange :
        /\ nmoves = 1 /\ ply = 1 /\ turn = "Black" /\ player = "White"
        /\ queries = <<Answered(1, "pre", None), Answered(1, "post", Some(s))>>
        /\ console = <<Plain("start"), Line("ply", 1, 1, "White", s, "", 0)>>
        /\ drawn = <<[ply |-> 0, arrow |-> None, message |-> <<>>]>>
        /\ records = <<>>
        /\ prev_score = None
        /\ score = Some(s)
        /\ move_number = 1
        /\ drop = None

InitClassifySecond ==
    \E p \in PrevChoices, s \in DropRange :
        /\ nmoves = 2 /\ ply = 2 /\ turn = "White" /\ player = "Black"
        /\ queries = <<Answered(1, "pre", None), Answered(1, "post", Some(p)),
                       Answered(2, "pre", None), Answered(2, "post", Some(s))>>
        /\ console = <<Plain("start"), Line("ply", 1, 1, "White", p, "", 0),
                       Line("ply", 2, 1, "Black", s, "", 0)>>
        /\ drawn = <<[ply |-> 0, arrow |-> None, message |-> <<>>],
                     [ply |-> 1, arrow |-> None, message |-> <<>>]>>
        /\ records = <<[ply |-> 1, actor |-> "White", pre_move_best |-> None,
                        post_move_score |-> Some(p), prev |-> None,
                        delta |-> None, severity |-> "None", num |-> 1]>>
        /\ prev_score = Some(p)
        /\ score = Some(s)
        /\ move_number = 1
        /\ drop = None

InitClassify ==
    /\ pc = "classify"
    /\ pending = <<>>
    /\ engine = "running" /\ quits = 0 /\ gui = TRUE
    /\ best_move = None /\ gui_message = <<>> /\ arrow = None /\ exc = <<>>
    /\ (InitClassifyFirst \/ InitClassifySecond)
    /\ pushed = ply

NextClassify == ClassifyMove

SpecClassify == InitClassify /\ [][NextClassify]_vars

\* ---- derived observations ----
Returned == pc = "done"
Outcome == IF console = <<>> THEN "" ELSE console[Len(console)].kind
PlyLines == SelectSeq(console, LAMBDA l : l.kind = "ply")
SevLines == SelectSeq(console, LAMBDA l : l.kind = "sev")

\* ---- vocabulary of the properties ----
LastRecord == records[Len(records)]
FailedQueries == {j \in 1..Len(queries) : ~queries[j].ok}
UndefinedScorePlies ==
    {queries[j].ply : j \in {k \in 1..Len(queries) :
        queries[k].phase = "post" /\ queries[k].ok /\ queries[k].score = None}}
RaisedAt(site) == exc # <<>> /\ exc[2] = site
Abs(x) == IF x < 0 THEN 0 - x ELSE x
\* The order None < Inaccuracy < Mistake < Blunder.
Rank(s) ==
    CASE s = "None" -> 0 [] s = "Inaccuracy" -> 1 [] s = "Mistake" -> 2
      [] s = "Blunder" -> 3
Band(d) ==
    IF d >= 300 THEN "Blunder"
    ELSE IF d >= 100 /\ d < 300 THEN "Mistake"
    ELSE IF d >= 50 /\ d < 100 THEN "Inaccuracy"
    ELSE "None"
WithDelta == {i \in 1..Len(records) : records[i].delta # None}
ScoresOf(recs) == [i \in 1..Len(recs) |-> recs[i].post_move_score]
DeltasOf(recs) == [i \in 1..Len(recs) |-> recs[i].delta]
SeveritiesOf(recs) == [i \in 1..Len(recs) |-> recs[i].severity]

\* C1: whenever analyze_game returns after the engine session was started,
\* engine.quit has been called exactly once, whatever the exit path.
C1_QuitExactlyOnce == (Returned /\ engine # "none") => quits = 1

\* C2: the severity of a classified ply is Blunder for a drop >= 300, Mistake
\* for 100 <= drop < 300, Inaccuracy for 50 <= drop < 100, and None for a drop
\* below 50 or an undefined drop; the message shown carries that severity.
C2_SeverityBands ==
    pc = "draw" =>
        /\ LastRecord.delta = None => LastRecord.severity = "None"
        /\ LastRecord.delta # None =>
              LET d == Val(LastRecord.delta) IN
              /\ d >= 300 => LastRecord.severity = "Blunder"
              /\ (100 <= d /\ d < 300) => LastRecord.severity = "Mistake"
              /\ (50 <= d /\ d < 100) => LastRecord.severity = "Inaccuracy"
              /\ d < 50 => LastRecord.severity = "None"
        /\ gui_message = IF LastRecord.severity = "None" THEN <<>>
                         ELSE <<player, LastRecord.severity>>

C2_Witness ==
    /\ pc = "draw"
    /\ LastRecord.delta = Some(100)
    /\ gui_message = <<player, "Mistake">>

\* C3: a post-move query answering None, with no query failing and the
\* renderer working, does not halt the run: that ply is recorded with severity
\* None, every ply of the game is recorded and the run ends complete.
C3_UndefinedScoreContinues ==
    (Returned /\ UndefinedScorePlies # {} /\ FailedQueries = {}
       /\ ~RaisedAt("draw_board"))
    => /\ Outcome = "complete"
       /\ Len(records) = nmoves
       /\ \A k \in UndefinedScorePlies : records[k].severity = "None"

\* C4: once a query of ply k has failed, no later query exists, the records
\* and printed ply lines are exactly those of plies 1..k-1, and the run has
\* ended with the error line and never printed the completion line.
C4_AbortKeepsEarlierPlies ==
    \A j \in FailedQueries :
        LET k == queries[j].ply IN
        /\ j = Len(queries)
        /\ Len(records) = k - 1
        /\ \A i \in 1..(k - 1) : records[i].ply = i
        /\ Len(PlyLines) = k - 1
        /\ \A i \in 1..(k - 1) : PlyLines[i].ply = i
        /\ Len(drawn) = k
        /\ Returned
        /\ Outcome = "error"
        /\ \A i \in 1..Len(console) : console[i].kind # "complete"

C4_Witness ==
    /\ nmoves = 4
    /\ FailedQueries # {}
    /\ queries[Len(queries)].ply = 3
    /\ Len(records) = 2
    /\ Outcome = "error"

\* C5: for every recorded ply i >= 2 whose score and whose predecessor's score
\* are defined, delta_i = score(i-1) - score(i) for either actor and the
\* severity is the band of delta_i; the scores [50, -260, -260, 0] give the
\* deltas [undefined, 310, 0, -260] and severities [None, Blunder, None, None].
C5_DeltaIsPreviousMinusCurrent ==
    /\ \A i \in 2..Len(records) :
          (records[i].post_move_score # None /\ records[i - 1].post_move_score # None)
          => /\ records[i].delta =
                  Some(Val(records[i - 1].post_move_score) - Val(records[i].post_move_score))
             /\ records[i].severity = Band(Val(records[i].delta))
    /\ ScoresOf(records) = <<Some(50), Some(-260), Some(-260), Some(0)>>
       => /\ DeltasOf(records) = <<None, Some(310), Some(0), Some(-260)>>
          /\ SeveritiesOf(records) = <<"None", "Blunder", "None", "None">>

C5_Witness ==
    /\ Len(records) = 4
    /\ ScoresOf(records) = <<Some(50), Some(-260), Some(-260), Some(0)>>
    /\ records[2].actor = "Black"
    /\ Len(SevLines) = 1

\* C6: the first ply has severity None whatever score the engine returned:
\* no severity line is printed for it and it is drawn with no arrow and no message.
C6_FirstPlyHasNoSeverity ==
    /\ Len(records) >= 1 => records[1].severity = "None"
    /\ \A i \in 1..Len(console) : console[i].kind = "sev" => console[i].ply # 1
    /\ \A i \in 1..Len(drawn) :
          drawn[i].ply = 1 => (drawn[i].arrow = None /\ drawn[i].message = <<>>)

C6_Witness ==
    /\ Len(records) >= 1
    /\ records[1].post_move_score = Some(0 - MATE_SCORE)
    /\ records[1].pre_move_best # None
    /\ Len(drawn) >= 2

\* C7: when the notation file cannot be opened or holds no game, the run has
\* returned with a report and without an engine session, a query or a
\* renderer; a missing file is reported as not found.
C7_NoInputNoSession ==
    (RaisedAt("open") \/ Outcome = "nogame") =>
        /\ Returned
        /\ engine = "none" /\ quits = 0
        /\ queries = <<>>
        /\ ~gui /\ drawn = <<>>
        /\ Outcome \in {"notfound", "error", "nogame"}
        /\ (exc # <<>> /\ exc[1] = "FileNotFoundError") => Outcome = "notfound"

C7_Witness == exc = <<"FileNotFoundError", "open">> /\ Outcome = "notfound"

\* C8: when starting the engine fails, the run reports an engine error and not
\* the file-not-found outcome, no ply is analysed or reported and no quit is attempted.
C8_EngineUnavailableReported ==
    RaisedAt("popen_uci") =>
        /\ Outcome = "error"
        /\ queries = <<>> /\ records = <<>>
        /\ quits = 0

\* C9: the delta classified for a ply is the loss of the side that moved:
\* previous minus current White-perspective score for a White ply, current
\* minus previous for a Black ply.
C9_DeltaIsMoversLoss ==
    \A i \in 2..Len(records) :
        (records[i].post_move_score # None /\ records[i - 1].post_move_score # None)
        => LET before == Val(records[i - 1].post_move_score)
               after == Val(records[i].post_move_score)
               loss == IF records[i].actor = "White" THEN before - after
                       ELSE after - before
           IN /\ records[i].delta = Some(loss)
              /\ records[i].severity = Band(loss)

\* C10 as stated: severity is non-decreasing in the magnitude |delta|.
C10_MonotoneInMagnitude ==
    \A i, j \in WithDelta :
        Abs(Val(records[i].delta)) <= Abs(Val(records[j].delta))
        => Rank(records[i].severity) <= Rank(records[j].severity)

\* C10 amended: severity is non-decreasing in the signed delta, and two plies
\* of a run with the same delta have the same severity whatever their index,
\* actor or history.
C10_MonotoneInDelta ==
    \A i, j \in WithDelta :
        Val(records[i].delta) <= Val(records[j].delta)
        => Rank(records[i].severity) <= Rank(records[j].severity)

C10_Witness ==
    \E i, j \in WithDelta :
        /\ records[i].delta = Some(-310) /\ records[i].severity = "None"
        /\ records[j].delta = Some(310) /\ records[j].severity = "Blunder"
        /\ records[i].actor # records[j].actor

\* ---- vocabulary of the later properties ----
Odd(j) == j % 2 = 1
\* The side that makes ply k, from the board as it stands.
MoverOf(k) == IF (pushed - (k - 1)) % 2 = 0 THEN turn ELSE Other(turn)
SevLinesOf(i) ==
    {j \in 1..Len(console) : console[j].kind = "sev" /\ console[j].ply = i}
BlackPliesDrawn ==
    Cardinality({d \in 1..Len(drawn) :
        drawn[d].ply >= 1 /\ records[drawn[d].ply].actor = "Black"})
BlackLinesBefore(i) ==
    Cardinality({j \in 1..(i - 1) : PlyLines[j].player = "Black"})
Finished == Outcome \in {"complete", "error", "notfound", "nogame"}

\* C11: a recorded ply has a delta only when its own score and the score of
\* the ply just before it are both defined, and has severity None otherwise;
\* the previous score a ply was compared with, and the one remembered after
\* it, is always the score of the immediately preceding ply.
C11_DeltaNeedsBothScores ==
    /\ \A i \in 1..Len(records) :
          /\ records[i].prev =
                IF i = 1 THEN None ELSE records[i - 1].post_move_score
          /\ records[i].delta # None =>
                /\ i > 1
                /\ records[i].post_move_score # None
                /\ records[i - 1].post_move_score # None
          /\ records[i].delta = None =>
                (records[i].severity = "None" /\ SevLinesOf(i) = {})
          /\ (i > 1 /\ records[i - 1].post_move_score = None) =>
                records[i].severity = "None"
    /\ Len(records) >= 1 => prev_score = LastRecord.post_move_score

C11_Witness ==
    /\ Len(records) = 3
    /\ records[1].delta = None
    /\ records[1].post_move_score = Some(50)
    /\ records[2].post_move_score = Some(0)
    /\ records[3].prev = Some(0)
    /\ records[3].delta = Some(260)
    /\ prev_score = Some(-260)

\* C12: at most one engine call is outstanding; the calls are, in order, the
\* pre-move call of ply 1 on the position before its move, the post-move call
\* of ply 1 on the position after it, then those of ply 2, and so on; every
\* recorded ply has exactly these two answered calls, whose answers are its
\* pre_move_best and its post_move_score.
C12_QueriesSequentialAndOrdered ==
    /\ Len(pending) <= 1
    /\ \A j \in 1..Len(queries) :
          /\ queries[j].ply = (j + 1) \div 2
          /\ queries[j].phase = IF Odd(j) THEN "pre" ELSE "post"
          /\ queries[j].pos = IF Odd(j) THEN queries[j].ply - 1 ELSE queries[j].ply
    /\ pending # <<>> =>
          LET j == Len(queries) + 1 IN
          /\ pending[1].ply = (j + 1) \div 2
          /\ pending[1].phase = IF Odd(j) THEN "pre" ELSE "post"
          /\ pending[1].pos = IF Odd(j) THEN pending[1].ply - 1 ELSE pending[1].ply
    /\ \A i \in 1..Len(records) :
          /\ Len(queries) >= 2 * i
          /\ queries[2 * i - 1].ok /\ queries[2 * i].ok
          /\ records[i].pre_move_best = queries[2 * i - 1].pv
          /\ records[i].post_move_score = queries[2 * i].score
    /\ Len(queries) + Len(pending) <= 2 * ply

C12_Witness ==
    /\ Len(queries) = 5
    /\ Len(pending) = 1
    /\ pending[1] = [ply |-> 3, phase |-> "post", pos |-> 3, engine |-> "running"]
    /\ Len(records) = 2

\* C13: a severity line is printed for a ply exactly when its severity is not
\* None, naming the side that moved, the severity and the drop; the ply is then
\* drawn with that message and with this ply's pre-move best move, and a ply of
\* severity None is drawn with no arrow and an empty message.
C13_SeverityEventIffSeverity ==
    /\ \A j \in 1..Len(console) :
          console[j].kind = "sev" =>
             /\ console[j].ply \in 1..Len(records)
             /\ records[console[j].ply].severity # "None"
             /\ console[j].label = records[console[j].ply].severity
             /\ console[j].player = MoverOf(console[j].ply)
             /\ Some(console[j].drop) = records[console[j].ply].delta
    /\ \A i \in 1..Len(records) :
          /\ records[i].severity # "None" => Cardinality(SevLinesOf(i)) = 1
          /\ records[i].actor = MoverOf(i)
    /\ \A d \in 1..Len(drawn) :
          drawn[d].ply >= 1 =>
             LET i == drawn[d].ply IN
             IF records[i].severity = "None"
             THEN drawn[d].arrow = None /\ drawn[d].message = <<>>
             ELSE /\ drawn[d].message = <<MoverOf(i), records[i].severity>>
                  /\ drawn[d].arrow = queries[2 * i - 1].pv

C13_Witness ==
    /\ Len(drawn) = 4
    /\ drawn[3].message = <<"Black", "Blunder">>
    /\ drawn[3].arrow = Some(2)
    /\ records[1].pre_move_best = Some(1)
    /\ drawn[4].message = <<>> /\ drawn[4].arrow = None
    /\ Len(SevLines) = 1

\* C14: a final status line is printed only once the engine session has been
\* stopped, no engine call is made after the stop, and the completion line is
\* printed only when every ply of the game has a record.
C14_StatusAfterStop ==
    /\ (engine # "none" /\ Outcome \in {"complete", "error"}) => engine = "quit"
    /\ \A j \in 1..Len(queries) : queries[j].engine = "running"
    /\ \A j \in 1..Len(pending) : pending[j].engine = "running"
    /\ Outcome = "complete" => Len(records) = nmoves

\* C15: once the loop's locals exist, the move number is 1 plus the number of
\* Black plies fully processed; each ply's line carries 1 plus the number of
\* Black plies before it, which is ceil(i/2) for ply i of a game White starts.
C15_MoveNumberCountsBlackPlies ==
    /\ gui => move_number = 1 + BlackPliesDrawn
    /\ \A i \in 1..Len(PlyLines) :
          /\ PlyLines[i].ply = i
          /\ PlyLines[i].num = 1 + BlackLinesBefore(i)
          /\ PlyLines[1].player = "White" => PlyLines[i].num = (i + 1) \div 2

C15_Witness ==
    /\ Len(PlyLines) = 4
    /\ PlyLines[1].player = "White"
    /\ PlyLines[3].num = 2 /\ PlyLines[4].num = 2
    /\ move_number = 3

\* C16: every ply is recorded at most once and in move-list order, at most
\* 2n engine calls are made for a game of n plies, and every run in which each
\* engine call returns or raises eventually prints its final status.
C16_AnalysisTerminates ==
    /\ [](\A i \in 1..Len(records) : records[i].ply = i)
    /\ [](Len(queries) + Len(pending) <= 2 * nmoves)
    /\ <>Finished

C16_Witness ==
    /\ nmoves = 4
    /\ Len(queries) = 8
    /\ Len(records) = 4
    /\ Outcome = "complete"

TypeOK ==
    /\ pc \in {"open", "popen", "tk", "loop", "pre", "pre_wait", "post", "post_wait",
               "report", "classify",
               "draw", "quit", "mainloop", "done"}
    /\ nmoves \in 0..MaxPly
    /\ ply \in 0..nmoves
    /\ engine \in {"none", "running", "quit"}
    /\ Len(records) <= ply
====
